---- MODULE Spec2Model ----
(***************************************************************************)
(* Gemini Image Editor: the file ingestion adapter (utils/fileUtils.ts),   *)
(* the edit request adapter (services/geminiService.ts) and the session    *)
(* sequencer of the App component (App.tsx).                               *)
(*                                                                         *)
(* JavaScript strings are TLA+ strings (\o, Len and SubSeq act on them).   *)
(* JavaScript null is `null` where an object is expected and `nullString`  *)
(* where a string is expected; `undefined` is the value of a missing       *)
(* array element or a missing property.                                    *)
(***************************************************************************)
EXTENDS Bags, FiniteSets, Integers, Sequences, TLC

VARIABLES
    originalImage,  \* App state: ImageFileState | null
    editedImage,    \* App state: {url, mimeType} | null
    prompt,         \* App state: string
    isLoading,      \* App state: boolean
    error,          \* App state: string | null (undefined when e.message is missing)
    uploads,        \* bag of files whose FileReader read is outstanding
    edits,          \* bag of outstanding editImage calls (the closure of handleSubmit)
    last,           \* the handler or completion that ran last
    e2e,            \* progress of the upload -> submit -> edit scenario
    editedFrom,     \* the request whose result editedImage holds, or null
    call            \* one adapter call under test (adapter specifications)

vars == <<originalImage, editedImage, prompt, isLoading, error,
          uploads, edits, last, e2e, editedFrom, call>>

appVars == <<originalImage, editedImage, prompt, isLoading, error,
             uploads, edits, last, e2e, editedFrom>>

-----------------------------------------------------------------------------
(* Bounds *)

MaxUrlLen == 4      \* longest data URL handed to reader.onload in SpecFile
MaxParts == 3       \* most content parts in a candidate in SpecEdit
MaxRatings == 2     \* most safety ratings on a candidate in SpecEdit
MaxInFlight == 2    \* most outstanding reads, and most outstanding edit calls

-----------------------------------------------------------------------------
(* JavaScript values *)

null == [null |-> TRUE]
nullString == "<null>"
undefined == "<undefined>"

\* new Error(message)
Error(message) == [isError |-> TRUE, message |-> message]

\* the ProgressEvent a FileReader hands to onerror: not an Error, no message
ProgressEvent == [isError |-> FALSE, message |-> undefined]

\* String.prototype.startsWith
startsWith(s, p) == Len(s) >= Len(p) /\ SubSeq(s, 1, Len(p)) = p

\* String.prototype.indexOf for a one-character needle, 1-based; 0 when absent
indexOf(s, c) ==
    IF \E i \in 1..Len(s) : SubSeq(s, i, i) = c
    THEN CHOOSE i \in 1..Len(s) :
            /\ SubSeq(s, i, i) = c
            /\ \A j \in 1..(i - 1) : SubSeq(s, j, j) # c
    ELSE 0

\* String.prototype.split with a one-character separator: every segment
RECURSIVE split(_, _)
split(s, sep) ==
    LET i == indexOf(s, sep)
    IN  IF i = 0 THEN <<s>>
        ELSE <<SubSeq(s, 1, i - 1)>> \o split(SubSeq(s, i + 1, Len(s)), sep)

\* array[k] with JavaScript's 0-based index: undefined past the end
At(array, k) == IF k + 1 <= Len(array) THEN array[k + 1] ELSE undefined

\* trim returning its argument as it is
trim_Identity(s) == s

\* String.prototype.trim (the only whitespace typed here is the space)
RECURSIVE trim(_)
trim(s) ==
    IF Len(s) > 0 /\ SubSeq(s, 1, 1) = " " THEN trim(SubSeq(s, 2, Len(s)))
    ELSE IF Len(s) > 0 /\ SubSeq(s, Len(s), Len(s)) = " "
         THEN trim(SubSeq(s, 1, Len(s) - 1))
         ELSE s

\* a value used as a condition: null, undefined and "" are falsy
truthy(s) == s # nullString /\ s # undefined /\ s # ""

-----------------------------------------------------------------------------
(* utils/fileUtils.ts *)

Pending == [state |-> "pending", value |-> null]

\* resolve that settles the Promise again when it is already settled
resolve_Overwrite(p, v) == [state |-> "fulfilled", value |-> v]

\* resolve / reject of a Promise: only the first settlement counts
resolve(p, v) == IF p.state = "pending" THEN [state |-> "fulfilled", value |-> v] ELSE p
reject(p, v) == IF p.state = "pending" THEN [state |-> "rejected", value |-> v] ELSE p

InvalidFileMessage == "Please select a valid image file."

\* processFile with the read started before the type check
processFile_ReadFirst(file) ==
    IF file = null \/ ~startsWith(file.type, "image/")
    THEN [reader |-> "reading", promise |-> reject(Pending, Error(InvalidFileMessage))]
    ELSE [reader |-> "reading", promise |-> Pending]

\* processFile up to the return of the Promise executor: either rejected
\* without a reader, or a reader whose read has started
processFile(file) ==
    IF file = null \/ ~startsWith(file.type, "image/")
    THEN [reader |-> "none", promise |-> reject(Pending, Error(InvalidFileMessage))]
    ELSE [reader |-> "reading", promise |-> Pending]

\* reader.onload: reader.result is dataUrl
onload(file, promise, dataUrl) ==
    LET base64 == At(split(dataUrl, ","), 1)
    IN  resolve(promise, [url |-> dataUrl, base64 |-> base64, mimeType |-> file.type])

\* reader.onerror
onerror(promise, event) == reject(promise, event)

\* what the browser's FileReader.readAsDataURL produces for a file
readAsDataURL(file) == "data:" \o file.type \o ";base64," \o file.bytes

-----------------------------------------------------------------------------
(* services/geminiService.ts *)

SafetyMessage ==
    "Image generation was blocked due to safety policies. Please try a different prompt."
NoImageMessage == "No image was generated. The model did not return an image."
FailedPrefix == "Failed to generate image: "
UnknownMessage == "An unknown error occurred while generating the image."

Return(v) == [ok |-> TRUE, value |-> v]
Throw(e) == [ok |-> FALSE, error |-> e]

\* the for loop over candidate.content.parts: first part with inlineData
RECURSIVE firstInline(_)
firstInline(parts) ==
    IF parts = <<>> THEN [found |-> FALSE, data |-> undefined]
    ELSE IF Head(parts).hasInline THEN [found |-> TRUE, data |-> Head(parts).data]
         ELSE firstInline(Tail(parts))

\* candidate?.safetyRatings?.some(rating => rating.blocked)
someBlocked(candidate) ==
    /\ candidate # null
    /\ \E i \in 1..Len(candidate.safetyRatings) : candidate.safetyRatings[i].blocked

\* the try block with the safety check placed before the scan of the parts
tryBlock_SafetyFirst(outcome) ==
    IF outcome.kind = "throw" THEN Throw(outcome.value)
    ELSE LET candidate == IF Len(outcome.candidates) > 0
                          THEN outcome.candidates[1] ELSE null
             inline == IF candidate # null /\ candidate.hasParts
                       THEN firstInline(candidate.parts)
                       ELSE [found |-> FALSE, data |-> undefined]
         IN  IF someBlocked(candidate) THEN Throw(Error(SafetyMessage))
             ELSE IF inline.found THEN Return(inline.data)
                  ELSE Throw(Error(NoImageMessage))

\* the try block: the remote call either throws or yields a response
tryBlock(outcome) ==
    IF outcome.kind = "throw" THEN Throw(outcome.value)
    ELSE LET candidate == IF Len(outcome.candidates) > 0
                          THEN outcome.candidates[1] ELSE null
             inline == IF candidate # null /\ candidate.hasParts
                       THEN firstInline(candidate.parts)
                       ELSE [found |-> FALSE, data |-> undefined]
         IN  IF inline.found THEN Return(inline.data)
             ELSE IF someBlocked(candidate) THEN Throw(Error(SafetyMessage))
                  ELSE Throw(Error(NoImageMessage))

\* the catch block rethrowing an Error as it came
catchBlock_Rethrow(thrown) ==
    IF thrown.isError THEN thrown
    ELSE Error(UnknownMessage)

\* the catch block deciding on the presence of a message
catchBlock_ByMessage(thrown) ==
    IF thrown.message # undefined THEN Error(FailedPrefix \o thrown.message)
    ELSE Error(UnknownMessage)

\* the catch block letting what is not an Error through
catchBlock_RawEscape(thrown) ==
    IF thrown.isError THEN Error(FailedPrefix \o thrown.message)
    ELSE thrown

\* the catch block: whatever was thrown inside try is re-wrapped
catchBlock(thrown) ==
    IF thrown.isError THEN Error(FailedPrefix \o thrown.message)
    ELSE Error(UnknownMessage)

\* editImage, given what the remote generateContent call did
editImage(outcome) ==
    LET r == tryBlock(outcome)
    IN  IF r.ok THEN r ELSE Throw(catchBlock(r.error))

-----------------------------------------------------------------------------
(* App.tsx: the state after the first render, with nothing outstanding *)

AppInit ==
    /\ originalImage = null
    /\ editedImage = null
    /\ prompt = ""
    /\ isLoading = FALSE
    /\ error = nullString
    /\ uploads = EmptyBag
    /\ edits = EmptyBag
    /\ last = [op |-> "init"]
    /\ e2e = [stage |-> "idle", result |-> ""]
    /\ editedFrom = null

-----------------------------------------------------------------------------
(* App.tsx: what the user and the environment can feed the session *)

AppFiles == {[type |-> "image/png", bytes |-> "QUJD"],
             [type |-> "image/gif", bytes |-> "R0lG"],
             [type |-> "text/plain", bytes |-> "aGk="]}

Prompts == {"", " ", "a", " a "}

ImageResponse(data) ==
    [kind |-> "response", value |-> null,
     candidates |-> <<[hasParts |-> TRUE,
                       parts |-> <<[hasInline |-> TRUE, data |-> data]>>,
                       safetyRatings |-> <<>>]>>]
BlockedResponse ==
    [kind |-> "response", value |-> null,
     candidates |-> <<[hasParts |-> FALSE, parts |-> <<>>,
                       safetyRatings |-> <<[blocked |-> TRUE]>>]>>]
AppOutcomes == {ImageResponse("AAAA"), BlockedResponse,
                [kind |-> "throw", candidates |-> <<>>, value |-> Error("timeout")]}

\* the progress of the scenario when none of its steps applies
Off == [stage |-> "off", result |-> ""]

-----------------------------------------------------------------------------
(* App.tsx: handlers and completions.  A handler runs to its first await;  *)
(* the code after the await runs when the awaited call settles.            *)

\* handleImageUpload(file), reachable through ImagePlaceholder, which is
\* rendered only while !originalImage && !isLoading.  A file that
\* processFile rejects at once runs the catch and finally blocks before any
\* other event.
handleImageUpload(file) ==
    /\ originalImage = null /\ ~isLoading
    /\ LET p == processFile(file)
       IN  IF p.promise.state = "rejected"
           THEN /\ error' = p.promise.value.message
                /\ originalImage' = null
                /\ isLoading' = FALSE
                /\ uploads' = uploads
                /\ e2e' = Off
                /\ last' = [op |-> "uploadRejected"]
           ELSE /\ BagCardinality(uploads) < MaxInFlight
                /\ error' = nullString
                /\ originalImage' = originalImage
                /\ isLoading' = TRUE
                /\ uploads' = uploads (+) SetToBag({file})
                /\ e2e' = IF uploads = EmptyBag /\ edits = EmptyBag
                          THEN [stage |-> "uploading", result |-> ""] ELSE Off
                /\ last' = [op |-> "handleImageUpload", cleared |-> error]
    /\ editedImage' = null
    /\ editedFrom' = null
    /\ UNCHANGED <<prompt, edits, call>>

\* reader.onload of an outstanding read, then the rest of handleImageUpload
readerOnload(file) ==
    /\ BagIn(file, uploads)
    /\ LET details == onload(file, Pending, readAsDataURL(file)).value
       IN  originalImage' = [url |-> details.url, base64 |-> details.base64,
                             mimeType |-> details.mimeType, file |-> file]
    /\ isLoading' = FALSE
    /\ uploads' = uploads (-) SetToBag({file})
    /\ e2e' = IF e2e.stage = "uploading"
              THEN [stage |-> "ingested", result |-> ""] ELSE Off
    /\ last' = [op |-> "onload"]
    /\ UNCHANGED <<editedImage, prompt, error, edits, editedFrom, call>>

\* reader.onerror of an outstanding read, then catch and finally
readerOnerror(file) ==
    /\ BagIn(file, uploads)
    /\ error' = onerror(Pending, ProgressEvent).value.message
    /\ originalImage' = null
    /\ isLoading' = FALSE
    /\ uploads' = uploads (-) SetToBag({file})
    /\ e2e' = Off
    /\ last' = [op |-> "onerror"]
    /\ UNCHANGED <<editedImage, prompt, edits, editedFrom, call>>

\* handleClear with the prompt left as typed
handleClear_KeepPrompt ==
    /\ originalImage # null
    /\ originalImage' = null
    /\ editedImage' = null
    /\ prompt' = prompt
    /\ error' = nullString
    /\ isLoading' = FALSE
    /\ e2e' = Off
    /\ last' = [op |-> "handleClear"]
    /\ editedFrom' = null
    /\ UNCHANGED <<uploads, edits, call>>

\* handleClear, reachable through the two buttons rendered while
\* originalImage is set; outstanding calls are left outstanding
handleClear ==
    /\ originalImage # null
    /\ originalImage' = null
    /\ editedImage' = null
    /\ prompt' = ""
    /\ error' = nullString
    /\ isLoading' = FALSE
    /\ e2e' = Off
    /\ last' = [op |-> "handleClear"]
    /\ editedFrom' = null
    /\ UNCHANGED <<uploads, edits, call>>

\* the textarea's onChange: rendered while originalImage is set, disabled
\* while isLoading
setPrompt(value) ==
    /\ originalImage # null /\ ~isLoading
    /\ prompt' = value
    /\ last' = [op |-> "setPrompt"]
    /\ UNCHANGED <<originalImage, editedImage, isLoading, error, uploads, edits,
                   e2e, editedFrom, call>>

\* handleSubmit without setError(null)
handleSubmit_KeepError ==
    IF originalImage = null \/ trim(prompt) = "" \/ isLoading
    THEN /\ last' = [op |-> "submitIgnored"]
         /\ UNCHANGED <<originalImage, editedImage, prompt, isLoading, error,
                        uploads, edits, e2e, editedFrom, call>>
    ELSE /\ BagCardinality(edits) < MaxInFlight
         /\ isLoading' = TRUE
         /\ error' = error
         /\ editedImage' = null
         /\ edits' = edits (+) SetToBag({[originalImage |-> originalImage,
                                          prompt |-> prompt]})
         /\ e2e' = IF e2e.stage = "ingested"
                   THEN [stage |-> "submitted", result |-> ""] ELSE Off
         /\ editedFrom' = null
         /\ last' = [op |-> "handleSubmit", cleared |-> error]
         /\ UNCHANGED <<originalImage, prompt, uploads, call>>

\* handleSubmit up to the await of editImage; the request keeps the
\* originalImage and prompt of the render it was submitted from
handleSubmit ==
    IF originalImage = null \/ trim(prompt) = "" \/ isLoading
    THEN /\ last' = [op |-> "submitIgnored"]
         /\ UNCHANGED <<originalImage, editedImage, prompt, isLoading, error,
                        uploads, edits, e2e, editedFrom, call>>
    ELSE /\ BagCardinality(edits) < MaxInFlight
         /\ isLoading' = TRUE
         /\ error' = nullString
         /\ editedImage' = null
         /\ edits' = edits (+) SetToBag({[originalImage |-> originalImage,
                                          prompt |-> prompt]})
         /\ e2e' = IF e2e.stage = "ingested"
                   THEN [stage |-> "submitted", result |-> ""] ELSE Off
         /\ editedFrom' = null
         /\ last' = [op |-> "handleSubmit", cleared |-> error]
         /\ UNCHANGED <<originalImage, prompt, uploads, call>>

\* the edited image with the media type fixed to image/png
editedImageFor_Png(original, resultBase64) ==
    [url |-> "data:image/png;base64," \o resultBase64, mimeType |-> "image/png"]

\* the value handed to setEditedImage
editedImageFor(original, resultBase64) ==
    [url |-> "data:" \o original.mimeType \o ";base64," \o resultBase64,
     mimeType |-> original.mimeType]

\* an outstanding editImage call settles, then the rest of handleSubmit
editSettled(request, outcome) ==
    /\ BagIn(request, edits)
    /\ LET r == editImage(outcome)
       IN  IF r.ok
           THEN /\ editedImage' = editedImageFor(request.originalImage, r.value)
                /\ error' = error
                /\ e2e' = IF e2e.stage = "submitted"
                          THEN [stage |-> "edited", result |-> r.value] ELSE Off
                /\ editedFrom' = request
                /\ last' = [op |-> "editResolved", request |-> request]
           ELSE /\ editedImage' = editedImage
                /\ error' = r.error.message
                /\ e2e' = Off
                /\ editedFrom' = editedFrom
                /\ last' = [op |-> "editRejected", request |-> request]
    /\ isLoading' = FALSE
    /\ edits' = edits (-) SetToBag({request})
    /\ UNCHANGED <<originalImage, prompt, uploads, call>>

\* the close button of the error banner, rendered while error is truthy
dismissError ==
    /\ truthy(error)
    /\ error' = nullString
    /\ last' = [op |-> "dismissError"]
    /\ UNCHANGED <<originalImage, editedImage, prompt, isLoading, uploads, edits,
                   e2e, editedFrom, call>>

Init ==
    /\ AppInit
    /\ call = [fn |-> "none"]

Next ==
    \/ \E file \in AppFiles : handleImageUpload(file)
    \/ \E file \in AppFiles : readerOnload(file)
    \/ \E file \in AppFiles : readerOnerror(file)
    \/ handleClear
    \/ \E value \in Prompts : setPrompt(value)
    \/ handleSubmit
    \/ \E request \in BagToSet(edits), outcome \in AppOutcomes :
            editSettled(request, outcome)
    \/ dismissError

Spec == Init /\ [][Next]_vars

\* the completion of an outstanding read or edit call
Settle ==
    \/ \E file \in AppFiles : readerOnload(file)
    \/ \E file \in AppFiles : readerOnerror(file)
    \/ \E request \in BagToSet(edits), outcome \in AppOutcomes :
            editSettled(request, outcome)

\* every outstanding call eventually settles
FairSpec == Spec /\ WF_vars(Settle)

-----------------------------------------------------------------------------
(* Inputs of the adapter specifications *)

SeqsUpTo(S, n) == UNION {[1..k -> S] : k \in 0..n}

RECURSIVE Strs(_, _)
Strs(alphabet, n) ==
    IF n = 0 THEN {""}
    ELSE Strs(alphabet, n - 1)
            \cup {s \o c : s \in Strs(alphabet, n - 1), c \in alphabet}

FileTypes == {"image/png", "image/gif", "image/", "text/plain", "ximage/png", "imag", ""}
HarnessFiles == {null} \cup [type : FileTypes, bytes : {"QUJD"}]
DataUrls == Strs({"d", ",", "A"}, MaxUrlLen) \cup {"data:image/png;base64,QUJD"}

Parts == {[hasInline |-> FALSE, data |-> undefined],
          [hasInline |-> TRUE, data |-> "AAAA"],
          [hasInline |-> TRUE, data |-> "BB"]}
Ratings == [blocked : BOOLEAN]
\* a candidate with content.parts, and one whose content or parts is missing
Candidates ==
    [hasParts : {TRUE}, parts : SeqsUpTo(Parts, MaxParts),
     safetyRatings : SeqsUpTo(Ratings, MaxRatings)]
    \cup [hasParts : {FALSE}, parts : {<<>>},
          safetyRatings : SeqsUpTo(Ratings, MaxRatings)]
LaterCandidates ==
    {[hasParts |-> TRUE, parts |-> <<[hasInline |-> TRUE, data |-> "ZZ"]>>,
      safetyRatings |-> <<>>],
     [hasParts |-> FALSE, parts |-> <<>>, safetyRatings |-> <<[blocked |-> TRUE]>>]}
Responses ==
    {<<>>} \cup {<<c>> : c \in Candidates}
           \cup {<<c, d>> : c \in Candidates, d \in LaterCandidates}
Thrown == {Error("timeout"), Error(""), Error(FailedPrefix \o "timeout"),
           [isError |-> FALSE, message |-> undefined],
           [isError |-> FALSE, message |-> "timeout"]}
RemoteOutcomes ==
    {[kind |-> "response", candidates |-> r, value |-> null] : r \in Responses}
    \cup {[kind |-> "throw", candidates |-> <<>>, value |-> t] : t \in Thrown}

-----------------------------------------------------------------------------
(* SpecFile: one processFile call, from its invocation to its settlement *)

\* 1 when a step changed the Promise, 0 when it left it as it was
Changed(before, after) == IF after # before THEN 1 ELSE 0

InitFile ==
    /\ AppInit
    /\ call \in {[fn |-> "processFile", file |-> f, reader |-> "uncalled",
                  promise |-> Pending, dataUrl |-> undefined,
                  settlements |-> 0, late |-> FALSE] : f \in HarnessFiles}

\* processFile(file) is invoked: the Promise executor runs
FileCall ==
    /\ call.fn = "processFile"
    /\ call.reader = "uncalled"
    /\ LET p == processFile(call.file)
       IN  call' = [call EXCEPT !.reader = p.reader, !.promise = p.promise,
                                !.settlements = @ + Changed(call.promise, p.promise)]
    /\ UNCHANGED appVars

\* the read succeeds: reader.onload fires with reader.result = dataUrl
FileOnload(dataUrl) ==
    /\ call.fn = "processFile"
    /\ call.reader = "reading"
    /\ LET p == onload(call.file, call.promise, dataUrl)
       IN  call' = [call EXCEPT !.reader = "loaded", !.promise = p,
                                !.dataUrl = dataUrl,
                                !.settlements = @ + Changed(call.promise, p)]
    /\ UNCHANGED appVars

\* the read fails: reader.onerror fires with a ProgressEvent
FileOnerror ==
    /\ call.fn = "processFile"
    /\ call.reader = "reading"
    /\ LET p == onerror(call.promise, ProgressEvent)
       IN  call' = [call EXCEPT !.reader = "failed", !.promise = p,
                                !.settlements = @ + Changed(call.promise, p)]
    /\ UNCHANGED appVars

\* a further load event after the reader's first event: onload runs again
FileLateOnload(dataUrl) ==
    /\ call.fn = "processFile"
    /\ call.reader \in {"loaded", "failed"}
    /\ ~call.late
    /\ LET p == onload(call.file, call.promise, dataUrl)
       IN  call' = [call EXCEPT !.late = TRUE, !.promise = p,
                                !.settlements = @ + Changed(call.promise, p)]
    /\ UNCHANGED appVars

\* a further error event after the reader's first event: onerror runs again
FileLateOnerror ==
    /\ call.fn = "processFile"
    /\ call.reader \in {"loaded", "failed"}
    /\ ~call.late
    /\ LET p == onerror(call.promise, ProgressEvent)
       IN  call' = [call EXCEPT !.late = TRUE, !.promise = p,
                                !.settlements = @ + Changed(call.promise, p)]
    /\ UNCHANGED appVars

\* the events of the reader
ReaderEvent ==
    \/ \E dataUrl \in DataUrls : FileOnload(dataUrl)
    \/ FileOnerror

NextFile ==
    \/ FileCall
    \/ \E dataUrl \in DataUrls : FileOnload(dataUrl)
    \/ FileOnerror
    \/ \E dataUrl \in DataUrls : FileLateOnload(dataUrl)
    \/ FileLateOnerror

SpecFile == InitFile /\ [][NextFile]_vars

\* the caller invokes processFile, and a started read ends with an event
FairSpecFile == SpecFile /\ WF_vars(FileCall) /\ WF_vars(ReaderEvent)

-----------------------------------------------------------------------------
(* SpecEdit: one editImage call against every remote outcome *)

InitEdit ==
    /\ AppInit
    /\ call \in {[fn |-> "editImage", outcome |-> o, state |-> "uncalled",
                  result |-> null, remoteCalls |-> 0] : o \in RemoteOutcomes}

\* editImage(base64Data, mimeType, prompt) runs to its return or throw
EditCall ==
    /\ call.fn = "editImage"
    /\ call.state = "uncalled"
    /\ call' = [call EXCEPT !.state = "settled", !.result = editImage(call.outcome),
                            !.remoteCalls = @ + 1]
    /\ UNCHANGED appVars

NextEdit == EditCall

SpecEdit == InitEdit /\ [][NextEdit]_vars

-----------------------------------------------------------------------------
(* Properties of processFile (SpecFile) *)

NotImageType(type) == Len(type) < 6 \/ SubSeq(type, 1, 6) # "image/"

\* C4: for a missing file and for every file whose type does not start with
\* "image/", processFile rejects with "Please select a valid image file."
\* and no FileReader read is ever started.
C4_InvalidFileRejectedWithoutRead ==
    (/\ call.fn = "processFile"
     /\ call.reader # "uncalled"
     /\ (call.file = null \/ NotImageType(call.file.type)))
    => /\ call.promise.state = "rejected"
       /\ call.promise.value.isError
       /\ call.promise.value.message = "Please select a valid image file."
       /\ call.reader = "none"

C4_Witness ==
    /\ call.fn = "processFile"
    /\ call.file # null
    /\ call.file.type = "ximage/png"
    /\ call.promise.state = "rejected"

\* C5: after a successful read the payload is everything after the first
\* comma of the data URL, url is the data URL and mimeType is the file's
\* type, for every data URL (no comma, one comma, several commas).
C5_PayloadIsRestAfterFirstComma ==
    (call.fn = "processFile" /\ call.reader = "loaded")
    => /\ call.promise.state = "fulfilled"
       /\ call.promise.value.url = call.dataUrl
       /\ call.promise.value.mimeType = call.file.type
       /\ \E i \in 1..Len(call.dataUrl) :
            /\ SubSeq(call.dataUrl, i, i) = ","
            /\ \A j \in 1..(i - 1) : SubSeq(call.dataUrl, j, j) # ","
            /\ call.promise.value.base64
                    = SubSeq(call.dataUrl, i + 1, Len(call.dataUrl))

\* C12: a processFile call settles exactly once: its Promise is settled at
\* most once whichever reader events fire and in whatever order, and once
\* the call is made it does get settled.
C12_SettlesExactlyOnce ==
    /\ [](call.settlements <= 1)
    /\ [](call.settlements = 1 <=> call.promise.state # "pending")
    /\ (call.reader # "uncalled") ~> (call.settlements = 1)

\* an error event first, then a load event: still the rejection of the first
C12_Witness ==
    /\ call.fn = "processFile"
    /\ call.reader = "failed"
    /\ call.late
    /\ call.settlements = 1
    /\ call.promise.state = "rejected"

-----------------------------------------------------------------------------
(* Properties of editImage (SpecEdit) *)

Settled == call.fn = "editImage" /\ call.state = "settled"

\* the parts of the first candidate of the response under test
FirstParts ==
    IF Len(call.outcome.candidates) > 0 /\ call.outcome.candidates[1].hasParts
    THEN call.outcome.candidates[1].parts ELSE <<>>

\* the safety ratings of the first candidate of the response under test
FirstRatings ==
    IF Len(call.outcome.candidates) > 0
    THEN call.outcome.candidates[1].safetyRatings ELSE <<>>

NoInlinePart == \A i \in 1..Len(FirstParts) : ~FirstParts[i].hasInline

\* C6: with no inline image data in the first candidate, editImage fails
\* with exactly the safety message when a rating is blocked and with exactly
\* the no-image message when none is.
C6_SafetyOrNoImageMessage ==
    (Settled /\ call.outcome.kind = "response" /\ NoInlinePart)
    => /\ ~call.result.ok
       /\ call.result.error.message =
            IF \E i \in 1..Len(FirstRatings) : FirstRatings[i].blocked
            THEN "Image generation was blocked due to safety policies. Please try a different prompt."
            ELSE "No image was generated. The model did not return an image."

\* C7: when the remote call throws an Error with message m, editImage fails
\* with exactly "Failed to generate image: " followed by m, the prefix being
\* applied once.
C7_RemoteErrorWrappedOnce ==
    (Settled /\ call.outcome.kind = "throw" /\ call.outcome.value.isError)
    => /\ ~call.result.ok
       /\ call.result.error.isError
       /\ call.result.error.message
            = "Failed to generate image: " \o call.outcome.value.message
       /\ Len(call.result.error.message) = 26 + Len(call.outcome.value.message)

C7_Witness ==
    /\ Settled
    /\ call.outcome.kind = "throw"
    /\ call.outcome.value = Error("timeout")
    /\ call.result.error.message = "Failed to generate image: timeout"

\* C8: when a part of the first candidate carries inline data, editImage
\* returns the data of the first such part, whatever the other parts, the
\* later candidates and the safety ratings are.
C8_FirstInlinePartWins ==
    (Settled /\ call.outcome.kind = "response" /\ ~NoInlinePart)
    => /\ call.result.ok
       /\ \E i \in 1..Len(FirstParts) :
            /\ FirstParts[i].hasInline
            /\ \A j \in 1..(i - 1) : ~FirstParts[j].hasInline
            /\ call.result.value = FirstParts[i].data

\* inline data in part 2 of 3, another image after it, a blocked rating and
\* a later candidate with an image of its own
C8_Witness ==
    /\ Settled
    /\ call.outcome.kind = "response"
    /\ Len(call.outcome.candidates) = 2
    /\ Len(FirstParts) = 3
    /\ ~FirstParts[1].hasInline
    /\ FirstParts[2] = [hasInline |-> TRUE, data |-> "BB"]
    /\ FirstParts[3] = [hasInline |-> TRUE, data |-> "AAAA"]
    /\ \E i \in 1..Len(FirstRatings) : FirstRatings[i].blocked
    /\ call.result = Return("BB")

\* C13 as claimed: a caught failure without a message gives exactly the
\* unknown-error message, a caught failure with a message gives
\* "Failed to generate image: " followed by that message.
C13_UnknownIffNoMessage ==
    (Settled /\ call.outcome.kind = "throw")
    => /\ ~call.result.ok
       /\ call.result.error.message =
            IF call.outcome.value.message = undefined
            THEN "An unknown error occurred while generating the image."
            ELSE "Failed to generate image: " \o call.outcome.value.message

\* C13 as amended: a caught failure that is not an Error gives exactly the
\* unknown-error message, with or without a message of its own; a caught
\* Error gives "Failed to generate image: " followed by its message, which
\* may be empty.
C13_UnknownIffNotError ==
    (Settled /\ call.outcome.kind = "throw")
    => /\ ~call.result.ok
       /\ call.result.error.message =
            IF call.outcome.value.isError
            THEN "Failed to generate image: " \o call.outcome.value.message
            ELSE "An unknown error occurred while generating the image."

\* a thrown object that is not an Error and carries the message "timeout"
C13_Witness ==
    /\ Settled
    /\ call.outcome.kind = "throw"
    /\ ~call.outcome.value.isError
    /\ call.outcome.value.message = "timeout"
    /\ call.result.error.message
            = "An unknown error occurred while generating the image."

\* the messages of the four failure kinds
NamedFailure(message) ==
    \/ message = "Image generation was blocked due to safety policies. Please try a different prompt."
    \/ message = "No image was generated. The model did not return an image."
    \/ message = "An unknown error occurred while generating the image."
    \/ (Len(message) >= 26 /\ SubSeq(message, 1, 26) = "Failed to generate image: ")

-----------------------------------------------------------------------------
(* Properties of the session sequencer (Spec) *)

\* the sequencer states of the design, read off the App state
HasOriginal ==
    /\ originalImage # null /\ editedImage = null
    /\ ~isLoading /\ edits = EmptyBag
Generating ==
    /\ originalImage # null /\ editedImage = null
    /\ isLoading /\ BagCardinality(edits) = 1
HasEdited ==
    /\ originalImage # null /\ editedImage # null
    /\ ~isLoading /\ edits = EmptyBag

\* C1: an edited image is present only while an original image is present.
C1_EditedOnlyWithOriginal == editedImage # null => originalImage # null

\* C2: at most one editImage call is outstanding at any time.
C2_AtMostOneEditInFlight == BagCardinality(edits) <= 1

\* C3: right after handleClear there is no original image, no edited image,
\* an empty prompt and no error, whatever the state it was invoked from.
C3_ClearResetsSession ==
    last.op = "handleClear"
    => /\ originalImage = null
       /\ editedImage = null
       /\ prompt = ""
       /\ error = nullString

\* cleared while an edit call was outstanding (from Generating)
C3_Witness ==
    /\ last.op = "handleClear"
    /\ edits # EmptyBag
    /\ prompt = ""

\* C9: from a quiescent Idle, upload with a successful read, then submit,
\* then a successful edit returning r pass through HasOriginal, Generating
\* and HasEdited, and the edited image is
\* "data:" + originalImage.mimeType + ";base64," + r with the original's
\* mimeType.
C9_EndToEnd ==
    /\ e2e.stage = "ingested" => HasOriginal
    /\ e2e.stage = "submitted" => Generating
    /\ e2e.stage = "edited"
       => /\ HasEdited
          /\ editedImage.url
                = "data:" \o originalImage.mimeType \o ";base64," \o e2e.result
          /\ editedImage.mimeType = originalImage.mimeType

C9_Witness ==
    /\ e2e = [stage |-> "edited", result |-> "AAAA"]
    /\ originalImage.mimeType = "image/gif"
    /\ editedImage.url = "data:image/gif;base64,AAAA"

\* C10: right after an edit request fails the session is in HasOriginal:
\* the original image of the request is still there, the error is stored,
\* no edited image is present and isLoading is false.
C10_EditFailureBackToHasOriginal ==
    last.op = "editRejected"
    => /\ originalImage = last.request.originalImage
       /\ truthy(error)
       /\ editedImage = null
       /\ ~isLoading

\* C11: right after an ingestion failure (invalid type or read error) the
\* session is Idle with the error surfaced: no original image, no edited
\* image, isLoading false and the failure's message in error.
C11_IngestFailureIdleWithError ==
    last.op \in {"uploadRejected", "onerror"}
    => /\ originalImage = null
       /\ editedImage = null
       /\ ~isLoading
       /\ truthy(error)

\* C15: every prompt handed to editImage is non-empty and has no leading
\* or trailing whitespace.
C15_PromptPassedIsTrimmed ==
    \A request \in BagToSet(edits) :
        /\ Len(request.prompt) > 0
        /\ SubSeq(request.prompt, 1, 1) # " "
        /\ SubSeq(request.prompt, Len(request.prompt), Len(request.prompt)) # " "

\* C16: an accepted upload or submit leaves error empty when its call
\* starts, and afterwards error becomes non-empty only through the
\* completion of a call or an upload that is rejected at once.
C16_AttemptClearsError ==
    [][/\ last'.op \in {"handleImageUpload", "handleSubmit"}
            => error' = nullString
       /\ (error = nullString /\ error' # nullString)
            => last'.op \in {"editRejected", "onerror", "uploadRejected"}]_vars

\* a submit accepted while an error was shown
C16_Witness ==
    /\ last.op = "handleSubmit"
    /\ truthy(last.cleared)
    /\ error = nullString
    /\ isLoading

Blank(s) == \A i \in 1..Len(s) : SubSeq(s, i, i) = " "

\* C17: a submit with no original image, with an empty or whitespace-only
\* prompt, or with isLoading set starts no call and changes none of
\* originalImage, editedImage, prompt, error and isLoading.
C17_GuardedSubmitIsNoOp ==
    [][(/\ last'.op \in {"submitIgnored", "handleSubmit"}
        /\ (originalImage = null \/ Blank(prompt) \/ isLoading))
       => UNCHANGED <<originalImage, editedImage, prompt, error, isLoading,
                      edits, uploads>>]_vars

\* a submit ignored for its whitespace-only prompt
C17_Witness ==
    /\ last.op = "submitIgnored"
    /\ originalImage # null
    /\ ~isLoading
    /\ prompt = " "
    /\ edits = EmptyBag

\* C18: when an original and an edited image are both present, the edited
\* image comes from a request made for that original: same mimeType, and
\* the request's payload is the original's base64.
C18_EditedBelongsToOriginal ==
    (originalImage # null /\ editedImage # null)
    => /\ editedImage.mimeType = originalImage.mimeType
       /\ editedFrom.originalImage.base64 = originalImage.base64

\* C19: isLoading is true exactly while a processFile or editImage call is
\* outstanding, and a state with isLoading true is eventually followed by
\* one with isLoading false.
C19_LoadingTracksOutstanding ==
    /\ [](isLoading <=> (uploads # EmptyBag \/ edits # EmptyBag))
    /\ (isLoading ~> ~isLoading)

====
